---- MODULE Spec2Model ----
(***************************************************************************)
(* Hangman client/server: the wire codec, the server's per-connection      *)
(* handler (handle_client), the acceptor loop of the server's main, the    *)
(* client's packet decoder and main, one connection between the client     *)
(* and its handler, and two handlers side by side.  Bytes are integers     *)
(* 0..255; strings are sequences of their ASCII codes.                     *)
(***************************************************************************)
EXTENDS Integers, Sequences, FiniteSets, TLC

\* ------------------------------------------------------------------------
\* Program constants
\* ------------------------------------------------------------------------
MAX_CLIENTS == 3
MAX_WORD_LEN == 16
MAX_INCORRECT == 8
\* the client's ceiling on the declared word length of a game-control packet
CLIENT_MAX_WORD_LEN == 8
\* sizeof(data) in the client's decoder
CLIENT_DATA_SIZE == 16
\* '_' : the placeholder of the masked word
PLACEHOLDER == 95
\* sizeof(line) in the client's main
LINE_SIZE == 128

\* ------------------------------------------------------------------------
\* Bounds of the model
\* ------------------------------------------------------------------------
\* largest length byte the wire carries to the guess loop
MaxGuessLen == 3
\* connections the acceptor is offered in one run
MaxConnections == 5
\* trailing bytes that follow an encoded packet on the stream
MaxTrail == 1

\* ------------------------------------------------------------------------
\* Strings of the protocol, as ASCII
\* ------------------------------------------------------------------------
WelcomeMsg == <<87, 101, 108, 99, 111, 109, 101, 32, 116, 111, 32, 72, 97, 110, 103, 109, 97, 110>>
OverloadedMsg == <<115, 101, 114, 118, 101, 114, 45, 111, 118, 101, 114, 108, 111, 97, 100, 101, 100>>
GameOverMsg == <<71, 97, 109, 101, 32, 79, 118, 101, 114, 33>>
YouWinMsg == <<89, 111, 117, 32, 87, 105, 110, 33>>
YouLoseMsg == <<89, 111, 117, 32, 76, 111, 115, 101, 46>>
TheWordWas == <<84, 104, 101, 32, 119, 111, 114, 100, 32, 119, 97, 115>>

\* ------------------------------------------------------------------------
\* Helpers
\* ------------------------------------------------------------------------
Min(a, b) == IF a < b THEN a ELSE b

Range(s) == {s[i] : i \in 1..Len(s)}

\* tolower() of the C locale on an unsigned char
tolower(c) == IF c >= 65 /\ c <= 90 THEN c + 32 ELSE c

\* ------------------------------------------------------------------------
\* Packet codec, server side
\* ------------------------------------------------------------------------
\* the bytes send_message_packet puts on the stream: [len][len bytes]
send_message_packet(msg) ==
    LET len == Min(Len(msg), 255)
    IN  <<len>> \o SubSeq(msg, 1, len)

\* send_game_state: ok is FALSE where the function returns -1 before
\* sending; bytes is what it sends: [0][word_len][num_incorrect][masked]
\* [incorrect].  masked and incorrect are the arrays, of which the first
\* word_len and num_incorrect entries are copied.
send_game_state(masked, incorrect, word_len, num_incorrect) ==
    IF word_len = 0 \/ word_len > MAX_WORD_LEN
    THEN [ok |-> FALSE, bytes |-> <<>>]
    ELSE IF word_len + num_incorrect > MAX_WORD_LEN + MAX_WORD_LEN
    THEN [ok |-> FALSE, bytes |-> <<>>]
    ELSE [ok |-> TRUE,
          bytes |-> <<0, word_len, num_incorrect>>
                    \o SubSeq(masked, 1, word_len)
                    \o SubSeq(incorrect, 1, num_incorrect)]

\* ------------------------------------------------------------------------
\* Packet codec, client side
\* ------------------------------------------------------------------------
\* recv_and_print_one_packet on the bytes of stream, all of which have
\* arrived and after which the stream has ended.  r is the return value
\* (1 overloaded, 2 Game Over, 3 game-control, 4 other message, -1 error),
\* consumed the number of bytes taken from the stream, msg the bytes of a
\* message, word_state and incorrect the bytes of a game-control packet.
DecodeError(n) ==
    [r |-> -1, consumed |-> n, msg |-> <<>>, word_state |-> <<>>, incorrect |-> <<>>]

\* a client that accepts every word length the server can send
WordLenInvalidSixteen(word_len) == word_len > MAX_WORD_LEN

\* line 96: the word length the client rejects
word_len_invalid(word_len) == word_len > CLIENT_MAX_WORD_LEN

recv_and_print_one_packet(stream) ==
    IF Len(stream) < 1 THEN DecodeError(0)
    ELSE LET msg_flag == stream[1] IN
    IF msg_flag > 0
    THEN IF Len(stream) < 1 + msg_flag THEN DecodeError(Len(stream))
         ELSE LET data == SubSeq(stream, 2, 1 + msg_flag) IN
              [r |-> IF data = OverloadedMsg THEN 1
                     ELSE IF data = GameOverMsg THEN 2 ELSE 4,
               consumed |-> 1 + msg_flag, msg |-> data,
               word_state |-> <<>>, incorrect |-> <<>>]
    ELSE IF Len(stream) < 3 THEN DecodeError(Len(stream))
         ELSE LET word_len == stream[2]
                  num_incorrect == stream[3]
                  data_len == word_len + num_incorrect
              IN  IF word_len_invalid(word_len) THEN DecodeError(3)
                  ELSE IF data_len > CLIENT_DATA_SIZE THEN DecodeError(3)
                  ELSE IF Len(stream) < 3 + data_len THEN DecodeError(Len(stream))
                  ELSE [r |-> 3, consumed |-> 3 + data_len, msg |-> <<>>,
                        word_state |-> SubSeq(stream, 4, 3 + word_len),
                        incorrect |-> SubSeq(stream, 4 + word_len, 3 + data_len)]

\* ------------------------------------------------------------------------
\* State
\* ------------------------------------------------------------------------
VARIABLES
    \* -- one session: handle_client --
    spc,            \* position of the handler
    status,         \* Start, AwaitingStart, Playing, Won, Lost, Closed
    msg_len,        \* the byte read as the start header
    secret,         \* the word of the session
    masked,         \* masked[1..word_len]
    incorrect,      \* incorrect[1..num_incorrect]
    guess_len,      \* the length byte of the packet being read
    remaining,      \* bytes of a malformed packet still to drain
    pktRx,          \* bytes taken from the stream for the packet being read
    letter,         \* the lowercased guess being processed
    sent,           \* packets sent by the last step of the handler, in order
    lastBoard,      \* the last game-control packet sent
    rxEof,          \* a recv of the handler has failed
    \* -- the acceptor: main --
    apc,            \* position of the acceptor loop
    active_clients,
    backlog,        \* connections waiting in the listen queue
    offered,        \* connections that have arrived so far
    running,        \* children that have not closed client_fd yet
    listening,      \* children that have not closed lsock yet (line 405)
    closing,        \* children that closed client_fd and have not exited yet
    zombies,        \* children that exited and are not reaped yet
    conn,           \* what the acceptor did with the connection it accepted last
    \* -- the codec round trip --
    cpc,            \* position of the round trip
    cin,            \* the arguments of send_game_state
    wire,           \* the bytes on the stream
    dec,            \* the result of recv_and_print_one_packet
    \* -- the client: main --
    clpc,           \* position of the client's main
    r,              \* the value recv_and_print_one_packet returned last
    game_over,
    rc,             \* the exit status of main, -1 while it runs
    exitAt,         \* the position at which main returned
    stdin,          \* input typed and not read yet
    typed,          \* the line the user typed last, without its newline
    heard,          \* messages received since the last packet was sent
    guess,          \* the letter of the guess packet being sent
    rxbuf,          \* bytes recv_and_print_one_packet has taken of a packet it waits for
    \* -- the connection between the client and the handler --
    c2s,            \* bytes sent by the client and not received yet
    s2c,            \* bytes sent by the server and not received yet
    reset,          \* the connection has been reset
    txq,            \* send calls of the answer the server has still to make
    broken,         \* the server has sent to a client that had closed
    prevBoard,      \* the last game-control packet sent before the answer being sent
    \* -- two children of the acceptor --
    cur,            \* the child whose handler state the session variables hold
    parked,         \* the handler state of the other child
    ppc,            \* position of main between accept, fork and close
    life,           \* of each child: unborn, running or exited
    fdt,            \* of each process: its open descriptors of connections
    client_fd,      \* of each process: the value of its variable client_fd
    chan            \* of each connection: what the last step of a handler sent on it

sessVars == <<spc, status, msg_len, secret, masked, incorrect, guess_len,
              remaining, pktRx, letter, sent, lastBoard, rxEof>>
accVars == <<apc, active_clients, backlog, offered, running, listening, closing,
            zombies, conn>>
codecVars == <<cpc, cin, wire, dec>>
cliVars == <<clpc, r, game_over, rc, exitAt, stdin, typed, heard, guess, rxbuf>>
netVars == <<c2s, s2c, reset, txq, broken, prevBoard>>
schedVars == <<cur, parked, ppc, life, fdt, client_fd, chan>>
vars == <<sessVars, accVars, codecVars, cliVars, netVars, schedVars>>

\* ------------------------------------------------------------------------
\* The word list and the bytes the wire carries
\* ------------------------------------------------------------------------
\* words[0..num_words-1] as load_words leaves them: "cat", "tattattat"
\* (3 letters, and 9 letters with repeated ones)
words == << <<99, 97, 116>>, <<116, 97, 116, 116, 97, 116, 116, 97, 116>> >>
num_words == Len(words)

\* bytes offered as the start header
StartBytes == {0, 1}
\* bytes offered as the length byte of a guess packet
LenBytes == 0..MaxGuessLen
\* bytes offered as the payload of a malformed packet
DrainBytes == {1, 97}
\* bytes offered as the letter of a guess packet:
\* a c t C B _ b d e f g h i 1
LetterBytes == {97, 99, 116, 67, 66, 95, 98, 100, 101, 102, 103, 104, 105, 49}

\* The wire offers a letter that is new and not in the word only in
\* ascending order of its code; every other byte is offered at any time.
WireOffers(b) ==
    LET l == tolower(b)
    IN  \/ l \in Range(secret)
        \/ l \in Range(masked)
        \/ l \in Range(incorrect)
        \/ \A j \in 1..Len(incorrect) : incorrect[j] < l

\* ------------------------------------------------------------------------
\* handle_client
\* ------------------------------------------------------------------------
\* a check of the masked word alone, the incorrect letters forgotten
AlreadyGuessedMaskedOnly(m, inc, l) == l \in Range(m)

\* lines 223-238
already_guessed(m, inc, l) == l \in Range(m) \/ l \in Range(inc)

\* a search of the word that never finds the letter
FoundNever(sec, l) == FALSE

\* lines 242-248: found
found(sec, l) == l \in Range(sec)

\* a mask rebuilt from the guess alone, earlier reveals forgotten
RevealRemask(sec, m, inc, l) ==
    IF l \in Range(m) \/ l \in Range(inc) THEN m
    ELSE [i \in 1..Len(m) |-> IF sec[i] = l THEN l ELSE PLACEHOLDER]

\* a reveal loop that stops at the first match
RevealFirstOnly(sec, m, inc, l) ==
    IF l \in Range(m) \/ l \in Range(inc) THEN m
    ELSE [i \in 1..Len(m) |->
            IF sec[i] = l /\ (\A k \in 1..(i - 1) : sec[k] # l) THEN l ELSE m[i]]

\* lines 240-248: the masked word after the guess l
Reveal(sec, m, inc, l) ==
    IF already_guessed(m, inc, l) THEN m
    ELSE [i \in 1..Len(m) |-> IF sec[i] = l THEN l ELSE m[i]]

\* lines 250-254: the incorrect letters after the guess l
AddIncorrect(sec, m, inc, l) ==
    IF already_guessed(m, inc, l) \/ found(sec, l) THEN inc
    ELSE IF Len(inc) < MAX_INCORRECT THEN Append(inc, l) ELSE inc

\* a win check that starts at the second position
AllRevealedSkipFirst(m) == \A i \in 2..Len(m) : m[i] # PLACEHOLDER

\* lines 258-264
all_revealed(m) == \A i \in 1..Len(m) : m[i] # PLACEHOLDER

\* a lose check that is off by one
IsLostOffByOne(num_incorrect) == num_incorrect > MAX_INCORRECT

\* line 290: the lose check
is_lost(num_incorrect) == num_incorrect >= MAX_INCORRECT

\* the letters without the separating spaces
WordMsgNoSpaces(sec) == TheWordWas \o sec

\* lines 273-281: "The word was" and each letter preceded by a space
word_msg(sec) ==
    TheWordWas \o [k \in 1..(2 * Len(sec)) |->
                      IF k % 2 = 1 THEN 32 ELSE sec[k \div 2]]

\* lines 283-285 and 301-303
WinPackets(sec) ==
    << send_message_packet(word_msg(sec)),
       send_message_packet(YouWinMsg),
       send_message_packet(GameOverMsg) >>

LosePackets(sec) ==
    << send_message_packet(word_msg(sec)),
       send_message_packet(YouLoseMsg),
       send_message_packet(GameOverMsg) >>

\* send_message_packet and send_game_state: the send calls that put the
\* packet pkt on the stream, a header and then the rest
Chunks(pkt) ==
    IF pkt[1] > 0
    THEN << SubSeq(pkt, 1, 1), SubSeq(pkt, 2, Len(pkt)) >>
    ELSE << SubSeq(pkt, 1, 3), SubSeq(pkt, 4, Len(pkt)) >>

\* the send calls that put the packets pkts on the stream, in order
RECURSIVE AllChunks(_)
AllChunks(pkts) ==
    IF pkts = <<>> THEN <<>> ELSE Chunks(Head(pkts)) \o AllChunks(Tail(pkts))

\* what the first n send calls for the packets pkts put on the stream:
\* whole packets, and the header alone of the packet the calls stop in
RECURSIVE Pieces(_, _)
Pieces(pkts, n) ==
    IF pkts = <<>> \/ n = 0 THEN <<>>
    ELSE IF n = 1 THEN << Chunks(Head(pkts))[1] >>
    ELSE << Head(pkts) >> \o Pieces(Tail(pkts), n - 2)

\* what the send calls of an answer of so many calls do: all succeed
\* ("sent"), or the first n succeed and the next one fails with
\* ECONNRESET ("failed") or raises SIGPIPE, which ends the process
\* ("killed")
SendOutcomes(calls) ==
    {[n |-> calls, fate |-> "sent"]}
       \cup {[n |-> k, fate |-> f] : k \in 0..(calls - 1), f \in {"failed", "killed"}}

\* the outcomes for an answer of one packet, or of the three final packets
AnswerOutcomes ==
    SendOutcomes(Len(Chunks(send_message_packet(GameOverMsg))))
       \cup SendOutcomes(Len(AllChunks(WinPackets(<<>>))))

\* lines 283-285 and 301-303: where the handler ends after the sends of
\* the three final packets, whose results it ignores. After a failed send
\* the next send call raises SIGPIPE; a send of the last packet that
\* fails is followed by no other, and the handler returns.
TerminalEnd(out) ==
    IF out.fate = "sent" THEN "done"
    ELSE IF out.fate = "killed" THEN "killed"
    ELSE IF out.n >= 4 THEN "done"
    ELSE "killed"

\* the process of the handler is ended by SIGPIPE inside a send: the
\* handler does not return
Kill(st) ==
    /\ spc' = "killed"
    /\ status' = st

SessInit ==
    /\ spc = "welcome"
    /\ status = "Start"
    /\ msg_len = 0
    /\ secret = <<>>
    /\ masked = <<>>
    /\ incorrect = <<>>
    /\ guess_len = 0
    /\ remaining = 0
    /\ pktRx = 0
    /\ letter = 0
    /\ sent = <<>>
    /\ lastBoard = <<>>
    /\ rxEof = FALSE

\* the handler returns: main closes client_fd and the child exits
Return(st) ==
    /\ spc' = "done"
    /\ status' = st

\* line 156: the welcome message, by what its two send calls do. A peer
\* that has closed and then reset the connection before the welcome makes
\* the first call raise SIGPIPE.
SrvWelcome(out) ==
    /\ spc = "welcome"
    /\ out \in SendOutcomes(Len(Chunks(send_message_packet(WelcomeMsg))))
    /\ sent' = Pieces(<< send_message_packet(WelcomeMsg) >>, out.n)
    /\ IF out.fate = "sent"
       THEN /\ spc' = "await_start"
            /\ status' = "AwaitingStart"
       ELSE IF out.fate = "failed" THEN Return("Closed")
       ELSE Kill("Closed")
    /\ UNCHANGED <<msg_len, secret, masked, incorrect, guess_len, remaining,
                   pktRx, letter, lastBoard, rxEof>>

\* lines 161-189: the start header b arrives; word idx is chosen; the
\* initial board is sent, by what its two send calls do
SrvStart(b, idx, out) ==
    /\ spc = "await_start"
    /\ ~rxEof
    /\ msg_len' = b
    /\ secret' = words[idx]
    /\ masked' = [i \in 1..Len(words[idx]) |-> PLACEHOLDER]
    /\ incorrect' = <<>>
    /\ LET g == send_game_state(masked', incorrect', Len(masked'), 0)
       IN  IF ~g.ok
           THEN /\ sent' = <<>>
                /\ lastBoard' = lastBoard
                /\ Return("Closed")
           ELSE /\ out \in SendOutcomes(Len(Chunks(g.bytes)))
                /\ sent' = Pieces(<< g.bytes >>, out.n)
                /\ IF out.fate = "sent"
                   THEN /\ lastBoard' = g.bytes
                        /\ spc' = "guess_len"
                        /\ status' = "Playing"
                   ELSE /\ lastBoard' = lastBoard
                        /\ IF out.fate = "failed" THEN Return("Closed")
                                                 ELSE Kill("Closed")
    /\ UNCHANGED <<guess_len, remaining, pktRx, letter, rxEof>>

\* lines 161-165: the connection ends before a start header arrives
SrvStartFail ==
    /\ spc = "await_start"
    /\ rxEof' = TRUE
    /\ sent' = <<>>
    /\ Return("Closed")
    /\ UNCHANGED <<msg_len, secret, masked, incorrect, guess_len, remaining,
                   pktRx, letter, lastBoard>>

\* a malformed packet ignored without draining its payload
SrvGuessLenNoDrain(b) ==
    /\ spc = "guess_len"
    /\ ~rxEof
    /\ guess_len' = b
    /\ pktRx' = 1
    /\ sent' = <<>>
    /\ remaining' = remaining
    /\ spc' = IF b # 1 THEN "guess_len" ELSE "letter"
    /\ UNCHANGED <<status, msg_len, secret, masked, incorrect, letter,
                   lastBoard, rxEof>>

\* lines 195-214: the length byte b of a guess packet arrives
SrvGuessLen(b) ==
    /\ spc = "guess_len"
    /\ ~rxEof
    /\ guess_len' = b
    /\ pktRx' = 1
    /\ sent' = <<>>
    /\ IF b # 1
       THEN /\ remaining' = b
            /\ spc' = IF b > 0 THEN "drain" ELSE "guess_len"
       ELSE /\ remaining' = remaining
            /\ spc' = "letter"
    /\ UNCHANGED <<status, msg_len, secret, masked, incorrect, letter,
                   lastBoard, rxEof>>

\* lines 195-199: the recv of the length byte fails
SrvGuessLenFail ==
    /\ spc = "guess_len"
    /\ rxEof' = TRUE
    /\ sent' = <<>>
    /\ Return("Closed")
    /\ UNCHANGED <<msg_len, secret, masked, incorrect, guess_len, remaining,
                   pktRx, letter, lastBoard>>

\* lines 205-213: one more byte of a malformed packet is drained
SrvDrain(b) ==
    /\ spc = "drain"
    /\ ~rxEof
    /\ remaining' = remaining - 1
    /\ pktRx' = pktRx + 1
    /\ spc' = IF remaining' > 0 THEN "drain" ELSE "guess_len"
    /\ UNCHANGED <<status, msg_len, secret, masked, incorrect, guess_len,
                   letter, sent, lastBoard, rxEof>>

\* lines 207-210: recv_all fails while draining; the loop goes on to its
\* next recv
SrvDrainFail ==
    /\ spc = "drain"
    /\ rxEof' = TRUE
    /\ remaining' = 0
    /\ spc' = "guess_len"
    /\ UNCHANGED <<status, msg_len, secret, masked, incorrect, guess_len,
                   pktRx, letter, sent, lastBoard>>

\* lines 216-221: the letter b of a well-formed guess packet arrives
SrvLetter(b) ==
    /\ spc = "letter"
    /\ ~rxEof
    /\ letter' = tolower(b)
    /\ pktRx' = pktRx + 1
    /\ spc' = "process"
    /\ UNCHANGED <<status, msg_len, secret, masked, incorrect, guess_len,
                   remaining, sent, lastBoard, rxEof>>

\* lines 217-219: the recv of the letter fails
SrvLetterFail ==
    /\ spc = "letter"
    /\ rxEof' = TRUE
    /\ Return("Closed")
    /\ UNCHANGED <<msg_len, secret, masked, incorrect, guess_len, remaining,
                   pktRx, letter, sent, lastBoard>>

\* lines 223-311: the guess is applied and answered, by what the send
\* calls of the answer do. The results of the sends of the three final
\* packets are ignored; a failed send of a board makes the handler return.
SrvProcess(out) ==
    /\ spc = "process"
    /\ masked' = Reveal(secret, masked, incorrect, letter)
    /\ incorrect' = AddIncorrect(secret, masked, incorrect, letter)
    /\ letter' = 0
    /\ IF all_revealed(masked')
       THEN /\ out \in SendOutcomes(Len(AllChunks(WinPackets(secret))))
            /\ sent' = Pieces(WinPackets(secret), out.n)
            /\ lastBoard' = lastBoard
            /\ spc' = TerminalEnd(out)
            /\ status' = "Won"
       ELSE IF is_lost(Len(incorrect'))
       THEN /\ out \in SendOutcomes(Len(AllChunks(LosePackets(secret))))
            /\ sent' = Pieces(LosePackets(secret), out.n)
            /\ lastBoard' = lastBoard
            /\ spc' = TerminalEnd(out)
            /\ status' = "Lost"
       ELSE LET g == send_game_state(masked', incorrect', Len(masked'), Len(incorrect'))
            IN  IF ~g.ok
                THEN /\ sent' = <<>>
                     /\ lastBoard' = lastBoard
                     /\ Return("Closed")
                ELSE /\ out \in SendOutcomes(Len(Chunks(g.bytes)))
                     /\ sent' = Pieces(<< g.bytes >>, out.n)
                     /\ IF out.fate = "sent"
                        THEN /\ lastBoard' = g.bytes
                             /\ spc' = "guess_len"
                             /\ status' = status
                        ELSE /\ lastBoard' = lastBoard
                             /\ IF out.fate = "failed" THEN Return("Closed")
                                                      ELSE Kill("Closed")
    /\ UNCHANGED <<msg_len, secret, guess_len, remaining, pktRx, rxEof>>

\* ------------------------------------------------------------------------
\* main of the server: the acceptor loop and its children
\* ------------------------------------------------------------------------
NoConn == [answer |-> <<>>, forked |-> FALSE, closed |-> FALSE]

AccInit ==
    /\ apc = "reap1"
    /\ active_clients = 0
    /\ backlog = 0
    /\ offered = 0
    /\ running = 0
    /\ listening = 0
    /\ closing = 0
    /\ zombies = 0
    /\ conn = NoConn

\* a decrement also for the waitpid call that ends the loop
ReapedOneTooMany(ac, z) == IF ac > z + 1 THEN ac - z - 1 ELSE 0

\* lines 367-372 and 381-386: active_clients after the waitpid loop has
\* reaped z children
Reaped(ac, z) == IF ac > z THEN ac - z ELSE 0

\* line 389
overloaded(ac) == ac >= MAX_CLIENTS

\* a client connects. The connect succeeds while main lives, or while a
\* child that has not reached close(lsock) still holds the listening
\* socket. backlog counts the connections that wait for an accept of main:
\* a connection made after main was killed is never accepted and is not
\* counted.
Arrive ==
    /\ apc # "killed" \/ listening > 0
    /\ offered < MaxConnections
    /\ offered' = offered + 1
    /\ backlog' = IF apc = "killed" THEN backlog ELSE backlog + 1
    /\ UNCHANGED <<apc, active_clients, running, listening, closing, zombies, conn>>

\* lines 367-372: reap before accept
AccReap1 ==
    /\ apc = "reap1"
    /\ active_clients' = Reaped(active_clients, zombies)
    /\ zombies' = 0
    /\ apc' = "accept"
    /\ UNCHANGED <<backlog, offered, running, listening, closing, conn>>

\* line 374: accept returns a connection
AccAccept ==
    /\ apc = "accept"
    /\ backlog > 0
    /\ backlog' = backlog - 1
    /\ conn' = NoConn
    /\ apc' = "reap2"
    /\ UNCHANGED <<active_clients, offered, running, listening, closing, zombies>>

\* lines 375-378: accept fails
AccAcceptFail ==
    /\ apc = "accept"
    /\ apc' = "reap1"
    /\ UNCHANGED <<active_clients, backlog, offered, running, listening, closing,
                   zombies, conn>>

\* lines 381-386: reap after accept
AccReap2 ==
    /\ apc = "reap2"
    /\ active_clients' = Reaped(active_clients, zombies)
    /\ zombies' = 0
    /\ apc' = "admit"
    /\ UNCHANGED <<backlog, offered, running, listening, closing, conn>>

\* what the two send calls of the rejection (header byte, then the text)
\* do, by the state of the peer: both succeed; or the first or the second
\* fails, the peer having reset the connection, and the result is
\* discarded; or the first or the second raises SIGPIPE, the peer having
\* closed, which ends the server process
RejectOutcomes == SendOutcomes(Len(Chunks(send_message_packet(OverloadedMsg))))

\* lines 389-394: the cap is reached: answer server-overloaded and close
AccReject(out) ==
    /\ apc = "admit"
    /\ overloaded(active_clients)
    /\ conn' = [answer |-> Pieces(<< send_message_packet(OverloadedMsg) >>, out.n),
                forked |-> FALSE, closed |-> TRUE]
    /\ apc' = IF out.fate = "killed" THEN "killed" ELSE "reap1"
    /\ UNCHANGED <<active_clients, backlog, offered, running, listening, closing,
                   zombies>>

\* lines 396-414: fork; the child runs handle_client, the parent closes its
\* copy of client_fd and counts the child
AccFork ==
    /\ apc = "admit"
    /\ ~overloaded(active_clients)
    /\ running' = running + 1
    /\ listening' = listening + 1
    /\ active_clients' = active_clients + 1
    /\ conn' = [answer |-> <<>>, forked |-> TRUE, closed |-> FALSE]
    /\ apc' = "reap1"
    /\ UNCHANGED <<backlog, offered, closing, zombies>>

\* lines 397-401: fork fails
AccForkFail ==
    /\ apc = "admit"
    /\ ~overloaded(active_clients)
    /\ conn' = [answer |-> <<>>, forked |-> FALSE, closed |-> TRUE]
    /\ apc' = "reap1"
    /\ UNCHANGED <<active_clients, backlog, offered, running, listening, closing,
                   zombies>>

\* line 405: a child closes its copy of the listening socket and enters
\* handle_client
ChildCloseListen ==
    /\ listening > 0
    /\ listening' = listening - 1
    /\ UNCHANGED <<apc, active_clients, backlog, offered, running, closing,
                   zombies, conn>>

\* lines 406-407: handle_client returns in a child that has closed lsock
\* and the child closes client_fd: the session has ended
ChildClose ==
    /\ running > listening
    /\ running' = running - 1
    /\ closing' = closing + 1
    /\ UNCHANGED <<apc, active_clients, backlog, offered, listening, zombies, conn>>

\* line 408: the child exits and waits to be reaped
ChildExit ==
    /\ closing > 0
    /\ closing' = closing - 1
    /\ zombies' = zombies + 1
    /\ UNCHANGED <<apc, active_clients, backlog, offered, running, listening, conn>>

\* ------------------------------------------------------------------------
\* The round trip of a game-control packet: send_game_state on the server,
\* recv_and_print_one_packet on the client
\* ------------------------------------------------------------------------
\* masked words offered to the encoder: all placeholders (k = 1), or
\* letters with a placeholder at every second position (k = 2)
CodecMasked(n, k) ==
    [i \in 1..n |-> IF i % k = 0 THEN PLACEHOLDER ELSE 96 + i]

\* incorrect letters offered to the encoder: z, y, x, ...
CodecIncorrect(m) == [j \in 1..m |-> 123 - j]

\* bytes that follow the packet on the stream: the start of a next packet
CodecTrail(t) == [j \in 1..t |-> 0]

CodecInit ==
    /\ cpc = "encode"
    /\ \E n \in 1..MAX_WORD_LEN, k \in 1..2, m \in 0..MAX_INCORRECT, t \in 0..MaxTrail :
          cin = [masked |-> CodecMasked(n, k), incorrect |-> CodecIncorrect(m),
                 word_len |-> n, num_incorrect |-> m, trail |-> CodecTrail(t)]
    /\ wire = <<>>
    /\ dec = DecodeError(0)

\* the server sends the packet
CodecEncode ==
    /\ cpc = "encode"
    /\ LET g == send_game_state(cin.masked, cin.incorrect, cin.word_len, cin.num_incorrect)
       IN  /\ g.ok
           /\ wire' = g.bytes \o cin.trail
    /\ cpc' = "decode"
    /\ UNCHANGED <<cin, dec>>

\* the client receives one packet
CodecDecode ==
    /\ cpc = "decode"
    /\ dec' = recv_and_print_one_packet(wire)
    /\ cpc' = "decoded"
    /\ UNCHANGED <<cin, wire>>

\* the round trip at rest
CodecIdle ==
    /\ cpc = "idle"
    /\ cin = <<>>
    /\ wire = <<>>
    /\ dec = DecodeError(0)

\* ------------------------------------------------------------------------
\* main of the client
\* ------------------------------------------------------------------------
\* isalpha in the C locale
isalpha(c) == (c >= 65 /\ c <= 90) \/ (c >= 97 /\ c <= 122)

\* 127 times the letter b: a line that fills the buffer line[128]
LongLine == [i \in 1..(LINE_SIZE - 1) |-> 98]

\* lines the user types at the start prompt: y Y n yes and the empty line
PromptLines == { <<121>>, <<89>>, <<110>>, <<121, 101, 115>>, <<>> }

\* a, a NUL byte and b: a line whose C string is shorter than the line
NulLine == <<97, 0, 98>>

\* lines the user types at the guess prompt: a c t C b d e f g h i j,
\* ab, 1, the empty line, 127 times b, 127 times b followed by a, and
\* the line with a NUL byte
GuessLines == { <<97>>, <<99>>, <<116>>, <<67>>, <<98>>, <<100>>, <<101>>,
                <<102>>, <<103>>, <<104>>, <<105>>, <<106>>,
                <<97, 98>>, <<49>>, <<>>, LongLine, LongLine \o <<97>>,
                NulLine }

\* the line is a letter that is not in the word and was not guessed yet
FreshWrong(t) ==
    /\ Len(t) = 1 /\ isalpha(t[1])
    /\ tolower(t[1]) \notin Range(secret)
    /\ tolower(t[1]) \notin Range(incorrect)

\* Of the letters that are new and not in the word the user types the
\* least one; every other line is typed at any time.
UserOffers(t) ==
    FreshWrong(t) =>
       \A u \in GuessLines : FreshWrong(u) => tolower(t[1]) <= tolower(u[1])

\* fgets(line, sizeof(line), stdin) on the unread input in, which ends
\* with a newline: the number of characters stored in line
fgets(in) ==
    LET nl == CHOOSE i \in 1..Len(in) :
                 in[i] = 10 /\ \A k \in 1..(i - 1) : in[k] # 10
    IN  Min(LINE_SIZE - 1, nl)

\* line 247: strlen of the buffer fgets filled, which ends at its first
\* NUL byte
strlen(line) ==
    IF \E i \in 1..Len(line) : line[i] = 0
    THEN (CHOOSE i \in 1..Len(line) :
             line[i] = 0 /\ \A k \in 1..(i - 1) : line[k] # 0) - 1
    ELSE Len(line)

\* lines 247-251: the C string in the buffer without its trailing newline
strip_newline(line) ==
    LET len == strlen(line)
    IN  IF len > 0 /\ line[len] = 10
        THEN SubSeq(line, 1, len - 1)
        ELSE SubSeq(line, 1, len)

\* an answer that starts the game whatever it is
AffirmativeAlways(line) == TRUE

\* line 202: the answer to the start prompt starts the game
affirmative(line) == line[1] = 121 \/ line[1] = 89

\* line 259: the line is exactly one alphabetic character
one_letter(line) == Len(line) = 1 /\ isalpha(line[1])

\* a read loop that reads on after a game-control packet
AfterReplyPastBoard(rv) ==
    IF rv < 0 \/ rv = 2 THEN "done"
    ELSE "await_reply"

\* a read loop that goes on reading after a failed read
AfterReplyIgnoreError(rv) ==
    IF rv = 2 THEN "done"
    ELSE IF rv = 3 THEN "guessing"
    ELSE "await_reply"

\* a read loop that stops at the first message of any kind
AfterReplyStopOnMessage(rv) ==
    IF rv < 0 \/ rv = 2 THEN "done"
    ELSE "guessing"

\* lines 285-302: where main goes after a packet read in the inner loop
after_reply(rv) ==
    IF rv < 0 \/ rv = 2 THEN "done"
    ELSE IF rv = 3 THEN "guessing"
    ELSE "await_reply"

\* a client that prompts again without reading the answer
AfterGuessNoWait == "guessing"

\* lines 270-286: after the guess packet is sent main reads the answer
after_guess == "await_reply"

CliInit ==
    /\ clpc = "first"
    /\ r = 0
    /\ game_over = FALSE
    /\ rc = -1
    /\ exitAt = ""
    /\ stdin = <<>>
    /\ typed = <<>>
    /\ heard = <<>>
    /\ guess = 0
    /\ rxbuf = <<>>

NetInit ==
    /\ c2s = <<>>
    /\ s2c = <<>>
    /\ reset = FALSE
    /\ txq = <<>>
    /\ broken = FALSE
    /\ prevBoard = <<>>

\* close(sockfd) and return code at position pos of main
Exit(pos, code) ==
    /\ clpc' = "done"
    /\ exitAt' = pos
    /\ rc' = code

\* the client is killed by SIGPIPE at position pos of main: no close, no
\* return; the exit status is that of the signal
Killed(pos) ==
    /\ clpc' = "done"
    /\ exitAt' = pos
    /\ rc' = -13

\* the handler has returned, after the last send call of its answer, or
\* its process was killed in a send call
HandlerEnded == spc \in {"done", "killed"} /\ txq = <<>>

\* the process of the handler has closed client_fd, or was killed
ServerGone == HandlerEnded
\* main has returned and its process has closed sockfd
ClientGone == clpc = "done"

\* lines 48-110: recv_and_print_one_packet has to wait for more bytes than
\* the stream holds before it can return
RecvBlocks(stream) ==
    IF Len(stream) < 1 THEN TRUE
    ELSE IF stream[1] > 0 THEN Len(stream) < 1 + stream[1]
    ELSE IF Len(stream) < 3 THEN TRUE
    ELSE IF word_len_invalid(stream[2]) THEN FALSE
    ELSE IF stream[2] + stream[3] > CLIENT_DATA_SIZE THEN FALSE
    ELSE Len(stream) < 3 + stream[2] + stream[3]

\* the bytes of the connection recv_and_print_one_packet has before it:
\* those it has taken of the packet it waits for, and those not received
\* yet
CliStream == rxbuf \o s2c

\* recv_and_print_one_packet returns: the bytes it needs have arrived, or
\* the stream has ended (recv returns 0 after the server's close, or -1
\* after a reset, once the bytes received before are read)
CliRecvReturns == ~RecvBlocks(CliStream) \/ reset \/ ServerGone

\* what recv_and_print_one_packet returns on the connection
CliRecv == recv_and_print_one_packet(CliStream)

\* lines 13-24, 52, 61, 88, 108: a recv_all call of
\* recv_and_print_one_packet takes the bytes that have arrived (the flag
\* of a message, the header of a game-control packet, which the server
\* sends by a call of their own) and the function waits in recv for the
\* rest of the packet
CliTake ==
    /\ clpc \in {"first", "await_board", "await_reply"}
    /\ s2c # <<>>
    /\ ~CliRecvReturns
    /\ rxbuf' = CliStream
    /\ s2c' = <<>>
    /\ UNCHANGED <<clpc, r, game_over, rc, exitAt, stdin, typed, heard, guess>>
    /\ UNCHANGED <<c2s, reset, txq, broken, prevBoard>>

\* outcomes of a send of the client that follows a recv: it fails on a
\* reset connection; after the server's close it still succeeds
CliSendOutcomes == IF reset THEN {"failed"} ELSE {"sent"}

\* outcomes of a send of the client that follows another send: it fails
\* on a reset connection; after the server's close it succeeds, or the
\* process gets SIGPIPE
CliSendAgainOutcomes ==
    IF reset THEN {"failed"}
    ELSE IF ServerGone THEN {"sent", "killed"}
    ELSE {"sent"}

\* the bytes in flight to the server after the client has sent bytes
CliSends(bytes) == IF ServerGone THEN c2s ELSE c2s \o bytes

\* lines 176-190: the first packet
CliFirst ==
    /\ clpc = "first"
    /\ CliRecvReturns
    /\ LET d == CliRecv
       IN  /\ r' = d.r
           /\ s2c' = SubSeq(CliStream, d.consumed + 1, Len(CliStream))
           /\ rxbuf' = <<>>
           /\ heard' = IF d.r < 0 THEN heard ELSE Append(heard, d.msg)
           /\ IF d.r < 0 THEN Exit("first", 1)
              ELSE IF d.r = 1 \/ d.r = 2 THEN Exit("first", 0)
              ELSE /\ clpc' = "prompt_start"
                   /\ UNCHANGED <<rc, exitAt>>
    /\ UNCHANGED <<game_over, stdin, typed, guess, c2s, reset, txq, broken, prevBoard>>

\* lines 193-213: the user answers the start prompt with the line t
CliPromptStart(t) ==
    /\ clpc = "prompt_start"
    /\ LET in == t \o <<10>>
           n == fgets(in)
           line == SubSeq(in, 1, n)
       IN  /\ typed' = t
           /\ stdin' = SubSeq(in, n + 1, Len(in))
           /\ IF ~affirmative(line)
              THEN /\ Exit("prompt_start", 0)
                   /\ UNCHANGED <<c2s, heard>>
              ELSE \E out \in CliSendOutcomes :
                      IF out = "sent"
                      THEN /\ c2s' = CliSends(<<0>>)
                           /\ heard' = <<>>
                           /\ clpc' = "await_board"
                           /\ UNCHANGED <<rc, exitAt>>
                      ELSE /\ Exit("prompt_start", 1)
                           /\ UNCHANGED <<c2s, heard>>
    /\ UNCHANGED <<r, game_over, guess, s2c, reset, txq, broken, prevBoard, rxbuf>>

\* lines 197-200: the input ends at the start prompt
CliPromptStartEof ==
    /\ clpc = "prompt_start"
    /\ Exit("prompt_start", 1)
    /\ UNCHANGED <<r, game_over, stdin, typed, heard, guess, c2s, s2c, reset, txq, broken, prevBoard, rxbuf>>

\* lines 216-232: one packet read while waiting for the initial board
CliAwaitBoard ==
    /\ clpc = "await_board"
    /\ CliRecvReturns
    /\ LET d == CliRecv
       IN  /\ r' = d.r
           /\ s2c' = SubSeq(CliStream, d.consumed + 1, Len(CliStream))
           /\ rxbuf' = <<>>
           /\ heard' = IF d.r < 0 THEN heard ELSE Append(heard, d.msg)
           /\ IF d.r < 0 THEN Exit("await_board", 1)
              ELSE IF d.r = 2 THEN Exit("await_board", 0)
              ELSE /\ clpc' = IF d.r = 3 THEN "guessing" ELSE "await_board"
                   /\ UNCHANGED <<rc, exitAt>>
    /\ UNCHANGED <<game_over, stdin, typed, guess, c2s, reset, txq, broken, prevBoard>>

\* lines 237-273: one pass of the guess loop up to the send of the header
\* of the guess packet. fgets reads from the input left unread, or else
\* from the line t the user types.
CliGuess(t) ==
    /\ clpc = "guessing"
    /\ stdin = <<>> => UserOffers(t)
    /\ stdin # <<>> => t = typed
    /\ LET in == IF stdin = <<>> THEN t \o <<10>> ELSE stdin
           n == fgets(in)
           line == strip_newline(SubSeq(in, 1, n))
       IN  /\ typed' = t
           /\ stdin' = SubSeq(in, n + 1, Len(in))
           /\ IF Len(line) = 0
              THEN /\ Exit("guessing", 0)
                   /\ UNCHANGED <<c2s, guess>>
              ELSE IF ~one_letter(line)
              THEN UNCHANGED <<clpc, rc, exitAt, c2s, guess>>
              ELSE /\ guess' = tolower(line[1])
                   /\ \E out \in CliSendOutcomes :
                         IF out = "sent"
                         THEN /\ c2s' = CliSends(<<1>>)
                              /\ clpc' = "send_letter"
                              /\ UNCHANGED <<rc, exitAt>>
                         ELSE /\ c2s' = c2s
                              /\ Exit("guessing", 0)
    /\ UNCHANGED <<r, game_over, heard, s2c, reset, txq, broken, prevBoard, rxbuf>>

\* lines 274-277: the send of the letter of the guess packet
CliSendLetter ==
    /\ clpc = "send_letter"
    /\ \E out \in CliSendAgainOutcomes :
          IF out = "sent"
          THEN /\ c2s' = CliSends(<<guess>>)
               /\ heard' = <<>>
               /\ clpc' = after_guess
               /\ UNCHANGED <<rc, exitAt>>
          ELSE /\ IF out = "killed" THEN Killed("send_letter")
                                    ELSE Exit("send_letter", 0)
               /\ UNCHANGED <<c2s, heard>>
    /\ UNCHANGED <<r, game_over, stdin, typed, guess, s2c, reset, txq, broken, prevBoard, rxbuf>>

\* lines 242-244: the input ends at the guess prompt
CliGuessEof ==
    /\ clpc = "guessing"
    /\ stdin = <<>>
    /\ Exit("guessing", 0)
    /\ UNCHANGED <<r, game_over, stdin, typed, heard, guess, c2s, s2c, reset, txq, broken, prevBoard, rxbuf>>

\* lines 285-305: one packet read after a guess
CliAwaitReply ==
    /\ clpc = "await_reply"
    /\ CliRecvReturns
    /\ LET d == CliRecv
       IN  /\ r' = d.r
           /\ s2c' = SubSeq(CliStream, d.consumed + 1, Len(CliStream))
           /\ rxbuf' = <<>>
           /\ heard' = IF d.r < 0 THEN heard ELSE Append(heard, d.msg)
           /\ game_over' = (d.r < 0 \/ d.r = 2)
           /\ clpc' = after_reply(d.r)
           /\ IF after_reply(d.r) = "done"
              THEN /\ exitAt' = "await_reply"
                   /\ rc' = 0
              ELSE UNCHANGED <<rc, exitAt>>
    /\ UNCHANGED <<stdin, typed, guess, c2s, reset, txq, broken, prevBoard>>

\* ------------------------------------------------------------------------
\* One connection: the client and the handler of its session
\* ------------------------------------------------------------------------
\* what the first send call of an answer does. It fails on a reset
\* connection. A client that closed with bytes unread has reset the
\* connection, and the send fails once the reset has arrived. A send to a
\* client that has closed with nothing unread succeeds when it is the
\* first one after the close; after such a send the next one succeeds
\* still or raises SIGPIPE. When the first call succeeds SysSend makes the
\* calls that follow.
FirstSendOutcome(out) ==
    IF reset THEN out.n = 0 /\ out.fate = "failed"
    ELSE IF ClientGone /\ s2c # <<>>
         THEN out.fate = "sent" \/ (out.n = 0 /\ out.fate = "failed")
    ELSE IF broken THEN out.fate = "sent" \/ (out.n = 0 /\ out.fate = "killed")
    ELSE out.fate = "sent"

\* what a later send call of an answer does, in the same way
SrvSendOutcomes ==
    IF reset THEN {"failed"}
    ELSE IF ClientGone /\ s2c # <<>> THEN {"sent", "failed"}
    ELSE IF broken THEN {"sent", "killed"}
    ELSE {"sent"}

\* the bytes in flight to the client after a send of chunk has succeeded
SrvSends(chunk) == IF ClientGone THEN s2c ELSE s2c \o chunk

\* the first send call of the answer pkts of a step of the server; the
\* calls that follow are left in txq
SendFirst(pkts) ==
    IF pkts = <<>>
    THEN /\ s2c' = s2c
         /\ txq' = <<>>
         /\ broken' = broken
         /\ prevBoard' = <<>>
    ELSE /\ s2c' = SrvSends(Head(AllChunks(pkts)))
         /\ txq' = Tail(AllChunks(pkts))
         /\ broken' = (broken \/ ClientGone)
         /\ prevBoard' = IF Tail(AllChunks(pkts)) = <<>> THEN <<>> ELSE lastBoard

\* a recv of the handler returns a byte: bytes that arrived before a
\* reset are still read
SrvRecvByte == txq = <<>> /\ c2s # <<>>
\* a recv of the handler returns 0 or -1
SrvRecvEnds == txq = <<>> /\ c2s = <<>> /\ (reset \/ ClientGone)

\* the connection is reset while both ends are open: of the bytes in
\* flight those that had arrived stay readable and the rest is lost; a
\* recv fails once they are read, and every later send fails
NetReset ==
    /\ ~reset
    /\ ~ClientGone /\ ~ServerGone
    /\ reset' = TRUE
    /\ \E i \in 0..Len(c2s) : c2s' = SubSeq(c2s, 1, i)
    /\ \E k \in 0..Len(s2c) : s2c' = SubSeq(s2c, 1, k)
    /\ UNCHANGED <<txq, broken, prevBoard, sessVars, accVars, codecVars, cliVars, schedVars>>

\* server main, lines 389-394: the acceptor answers server-overloaded and
\* closes; no handler runs
SysOverloaded ==
    /\ spc = "welcome"
    /\ \E out \in RejectOutcomes :
          /\ FirstSendOutcome(out)
          /\ sent' = Pieces(<< send_message_packet(OverloadedMsg) >>, out.n)
          /\ spc' = IF out.fate = "killed" THEN "killed" ELSE "done"
    /\ SendFirst(sent')
    /\ UNCHANGED <<status, msg_len, secret, masked, incorrect, guess_len,
                   remaining, pktRx, letter, lastBoard, rxEof>>
    /\ UNCHANGED <<c2s, reset, accVars, codecVars, cliVars, schedVars>>

SysWelcome ==
    /\ \E out \in AnswerOutcomes : FirstSendOutcome(out) /\ SrvWelcome(out)
    /\ SendFirst(sent')
    /\ UNCHANGED <<c2s, reset, accVars, codecVars, cliVars, schedVars>>

SysStart ==
    /\ SrvRecvByte
    /\ \E idx \in 1..num_words, out \in AnswerOutcomes :
          FirstSendOutcome(out) /\ SrvStart(Head(c2s), idx, out)
    /\ c2s' = Tail(c2s)
    /\ SendFirst(sent')
    /\ UNCHANGED <<reset, accVars, codecVars, cliVars, schedVars>>

SysStartFail ==
    /\ SrvRecvEnds
    /\ SrvStartFail
    /\ UNCHANGED <<netVars, accVars, codecVars, cliVars, schedVars>>

SysGuessLen ==
    /\ SrvRecvByte
    /\ SrvGuessLen(Head(c2s))
    /\ c2s' = Tail(c2s)
    /\ UNCHANGED <<s2c, reset, txq, broken, prevBoard, accVars, codecVars, cliVars, schedVars>>

SysGuessLenFail ==
    /\ SrvRecvEnds
    /\ SrvGuessLenFail
    /\ UNCHANGED <<netVars, accVars, codecVars, cliVars, schedVars>>

SysLetter ==
    /\ SrvRecvByte
    /\ SrvLetter(Head(c2s))
    /\ c2s' = Tail(c2s)
    /\ UNCHANGED <<s2c, reset, txq, broken, prevBoard, accVars, codecVars, cliVars, schedVars>>

SysLetterFail ==
    /\ SrvRecvEnds
    /\ SrvLetterFail
    /\ UNCHANGED <<netVars, accVars, codecVars, cliVars, schedVars>>

SysProcess ==
    /\ txq = <<>>
    /\ \E out \in AnswerOutcomes : FirstSendOutcome(out) /\ SrvProcess(out)
    /\ SendFirst(sent')
    /\ UNCHANGED <<c2s, reset, accVars, codecVars, cliVars, schedVars>>

\* send_all, lines 40-50, called by send_message_packet and
\* send_game_state: the next send call of the answer. When it does not
\* succeed the step of the handler ends as SrvWelcome, SrvStart and
\* SrvProcess end for the calls made so far: sent is cut down to what was
\* sent, the last game-control packet sent is the one before this
\* answer, and the handler returns or is killed. The rejection of the
\* acceptor ignores the result of its sends.
SysSend ==
    /\ txq # <<>>
    /\ \E f \in SrvSendOutcomes :
          IF f = "sent"
          THEN /\ s2c' = SrvSends(Head(txq))
               /\ txq' = Tail(txq)
               /\ broken' = (broken \/ ClientGone)
               /\ prevBoard' = IF Tail(txq) = <<>> THEN <<>> ELSE prevBoard
               /\ UNCHANGED <<spc, status, sent, lastBoard>>
          ELSE LET out == [n |-> Len(AllChunks(sent)) - Len(txq), fate |-> f]
               IN  /\ s2c' = s2c
                   /\ txq' = <<>>
                   /\ broken' = broken
                   /\ prevBoard' = <<>>
                   /\ lastBoard' = prevBoard
                   /\ sent' = Pieces(sent, out.n)
                   /\ IF status \in {"Won", "Lost"}
                      THEN /\ spc' = TerminalEnd(out)
                           /\ status' = status
                      ELSE IF spc = "done"
                      THEN /\ spc' = IF f = "killed" THEN "killed" ELSE "done"
                           /\ status' = status
                      ELSE IF f = "failed" THEN Return("Closed")
                      ELSE Kill("Closed")
    /\ UNCHANGED <<msg_len, secret, masked, incorrect, guess_len, remaining,
                   pktRx, letter, rxEof>>
    /\ UNCHANGED <<c2s, reset, accVars, codecVars, cliVars, schedVars>>

\* the steps of the handler and of the acceptor on this connection
SysServer ==
    \/ SysOverloaded \/ SysWelcome \/ SysStart \/ SysStartFail
    \/ SysGuessLen \/ SysGuessLenFail \/ SysLetter \/ SysLetterFail
    \/ SysProcess \/ SysSend

\* the steps of the client that wait for the connection only
SysClientRecv ==
    (CliTake \/ CliFirst \/ CliAwaitBoard \/ CliAwaitReply)
       /\ UNCHANGED <<sessVars, accVars, codecVars, schedVars>>

\* the second send of a guess packet, which follows the first without
\* waiting for the user
SysClientSend ==
    CliSendLetter /\ UNCHANGED <<sessVars, accVars, codecVars, schedVars>>

\* ------------------------------------------------------------------------
\* Two children of the acceptor, each in handle_client
\* ------------------------------------------------------------------------
\* the handler state of a child at the entry of handle_client
EntryState ==
    [spc |-> "welcome", status |-> "Start", msg_len |-> 0, secret |-> <<>>,
     masked |-> <<>>, incorrect |-> <<>>, guess_len |-> 0, remaining |-> 0,
     pktRx |-> 0, letter |-> 0, sent |-> <<>>, lastBoard |-> <<>>,
     rxEof |-> FALSE]

\* the handler state of the child that runs
Snapshot ==
    [spc |-> spc, status |-> status, msg_len |-> msg_len, secret |-> secret,
     masked |-> masked, incorrect |-> incorrect, guess_len |-> guess_len,
     remaining |-> remaining, pktRx |-> pktRx, letter |-> letter,
     sent |-> sent, lastBoard |-> lastBoard, rxEof |-> rxEof]

\* processes: main (the acceptor) and its two children
Acceptor == 0
Children == {1, 2}

\* lines 325, 374: descriptors 0 to 2 are the standard streams and lsock
\* is 3, so accept returns 4 or more
FirstFd == 4
Fds == FirstFd..(FirstFd + 1)

SchedInit ==
    /\ cur = 1
    /\ parked = EntryState
    /\ ppc = "accept"
    /\ life = [p \in Children |-> "unborn"]
    /\ fdt = [p \in {Acceptor} \cup Children |-> {}]
    /\ client_fd = [p \in {Acceptor} \cup Children |-> 0]
    /\ chan = [c \in Children |-> <<>>]

\* the child the next fork makes, which serves the connection of the
\* same number
NextChild == 1 + Cardinality({p \in Children : life[p] # "unborn"})

\* accept returns the lowest descriptor that is not open in the process
LowestFree(tab) ==
    CHOOSE n \in Fds :
       /\ \A e \in tab : e[1] # n
       /\ \A m \in Fds : (\A e \in tab : e[1] # m) => n <= m

\* the connection the descriptor fd of process p refers to
ConnOf(p) == (CHOOSE e \in fdt[p] : e[1] = client_fd[p])[2]

\* line 374: accept returns a descriptor of the next connection
PairAccept ==
    /\ ppc = "accept"
    /\ NextChild \in Children
    /\ LET n == LowestFree(fdt[Acceptor])
       IN  /\ client_fd' = [client_fd EXCEPT ![Acceptor] = n]
           /\ fdt' = [fdt EXCEPT ![Acceptor] = @ \cup {<<n, NextChild>>}]
    /\ ppc' = "fork"
    /\ UNCHANGED <<cur, parked, life, chan>>
    /\ UNCHANGED <<sessVars, accVars, codecVars, cliVars, netVars>>

\* line 396: the child is a copy of main, with its variable client_fd and
\* its open descriptors, and enters handle_client (line 406)
PairFork ==
    /\ ppc = "fork"
    /\ life' = [life EXCEPT ![NextChild] = "running"]
    /\ fdt' = [fdt EXCEPT ![NextChild] = fdt[Acceptor]]
    /\ client_fd' = [client_fd EXCEPT ![NextChild] = client_fd[Acceptor]]
    /\ ppc' = "close"
    /\ UNCHANGED <<cur, parked, chan>>
    /\ UNCHANGED <<sessVars, accVars, codecVars, cliVars, netVars>>

\* a parent that goes back to accept with client_fd still open
ParentKeepsFd(tab, fd) == tab

\* line 411: close(client_fd) in the parent
ParentClose(tab, fd) == {e \in tab : e[1] # fd}

PairParentClose ==
    /\ ppc = "close"
    /\ fdt' = [fdt EXCEPT ![Acceptor] = ParentClose(@, client_fd[Acceptor])]
    /\ ppc' = "accept"
    /\ UNCHANGED <<cur, parked, life, client_fd, chan>>
    /\ UNCHANGED <<sessVars, accVars, codecVars, cliVars, netVars>>

\* lines 407-408: handle_client has returned, the child closes client_fd
\* and exits; or the child was killed in a send. Either way none of its
\* descriptors stays open.
PairChildExit ==
    /\ life[cur] = "running"
    /\ spc \in {"done", "killed"}
    /\ life' = [life EXCEPT ![cur] = "exited"]
    /\ fdt' = [fdt EXCEPT ![cur] = {}]
    /\ UNCHANGED <<cur, parked, ppc, client_fd, chan>>
    /\ UNCHANGED <<sessVars, accVars, codecVars, cliVars, netVars>>

\* the other child goes on: it finds the handler state it left, fork
\* having given each child its own copy of the address space
Switch ==
    /\ cur' = 3 - cur
    /\ parked' = Snapshot
    /\ spc' = parked.spc
    /\ status' = parked.status
    /\ msg_len' = parked.msg_len
    /\ secret' = parked.secret
    /\ masked' = parked.masked
    /\ incorrect' = parked.incorrect
    /\ guess_len' = parked.guess_len
    /\ remaining' = parked.remaining
    /\ pktRx' = parked.pktRx
    /\ letter' = parked.letter
    /\ sent' = parked.sent
    /\ lastBoard' = parked.lastBoard
    /\ rxEof' = parked.rxEof
    /\ UNCHANGED <<ppc, life, fdt, client_fd, chan>>
    /\ UNCHANGED <<accVars, codecVars, cliVars, netVars>>

\* a step of handle_client in the child that runs: what it sends goes to
\* the connection its client_fd refers to
InChild ==
    /\ life[cur] = "running"
    /\ chan' = [chan EXCEPT ![ConnOf(cur)] = sent']
    /\ UNCHANGED <<cur, parked, ppc, life, fdt, client_fd>>
    /\ UNCHANGED <<accVars, codecVars, cliVars, netVars>>

\* The first child is offered every kind of step: it draws "cat", gets
\* well-formed and malformed lengths, the letters a c t and the eight
\* wrong letters b d e f g h i j, and every outcome of its sends. The
\* second draws "tattattat", gets well-formed guesses of t and b, and its
\* sends succeed; its recv may fail.
PairWord(p) == p
PairLenBytes(p) == IF p = 1 THEN {1, 2} ELSE {1}
PairDrainBytes == {97}
PairLetterBytes(p) ==
    IF p = 1 THEN {97, 99, 116, 98, 100, 101, 102, 103, 104, 105, 106}
    ELSE {116, 98}
PairOutcomes(p) ==
    IF p = 1 THEN AnswerOutcomes ELSE {o \in AnswerOutcomes : o.fate = "sent"}

\* Of the letters that are new and not in the word the peer sends the
\* least one; every other letter is sent at any time.
PairOffers(b) ==
    (b \notin Range(secret) /\ b \notin Range(incorrect)) =>
       \A u \in PairLetterBytes(cur) :
          (u \notin Range(secret) /\ u \notin Range(incorrect)) => b <= u

\* ------------------------------------------------------------------------
\* Specifications
\* ------------------------------------------------------------------------
\* one session of the server against an arbitrary peer
SessionInit == SessInit /\ AccInit /\ CodecIdle /\ CliInit /\ NetInit /\ SchedInit

SessionNext ==
    \/ (\E out \in AnswerOutcomes : SrvWelcome(out))
          /\ UNCHANGED <<accVars, codecVars, cliVars, netVars, schedVars>>
    \/ (\E b \in StartBytes, idx \in 1..num_words, out \in AnswerOutcomes :
            SrvStart(b, idx, out))
          /\ UNCHANGED <<accVars, codecVars, cliVars, netVars, schedVars>>
    \/ SrvStartFail /\ UNCHANGED <<accVars, codecVars, cliVars, netVars, schedVars>>
    \/ (\E b \in LenBytes : SrvGuessLen(b)) /\ UNCHANGED <<accVars, codecVars, cliVars, netVars, schedVars>>
    \/ SrvGuessLenFail /\ UNCHANGED <<accVars, codecVars, cliVars, netVars, schedVars>>
    \/ (\E b \in DrainBytes : SrvDrain(b)) /\ UNCHANGED <<accVars, codecVars, cliVars, netVars, schedVars>>
    \/ SrvDrainFail /\ UNCHANGED <<accVars, codecVars, cliVars, netVars, schedVars>>
    \/ (\E b \in LetterBytes : WireOffers(b) /\ SrvLetter(b))
          /\ UNCHANGED <<accVars, codecVars, cliVars, netVars, schedVars>>
    \/ SrvLetterFail /\ UNCHANGED <<accVars, codecVars, cliVars, netVars, schedVars>>
    \/ (\E out \in AnswerOutcomes : SrvProcess(out))
          /\ UNCHANGED <<accVars, codecVars, cliVars, netVars, schedVars>>

SpecSession == SessionInit /\ [][SessionNext]_vars

\* the acceptor, its children and the arriving connections
AcceptorInit == AccInit /\ SessInit /\ CodecIdle /\ CliInit /\ NetInit /\ SchedInit

AcceptorNext ==
    \/ Arrive /\ UNCHANGED <<sessVars, codecVars, cliVars, netVars, schedVars>>
    \/ AccReap1 /\ UNCHANGED <<sessVars, codecVars, cliVars, netVars, schedVars>>
    \/ AccAccept /\ UNCHANGED <<sessVars, codecVars, cliVars, netVars, schedVars>>
    \/ AccAcceptFail /\ UNCHANGED <<sessVars, codecVars, cliVars, netVars, schedVars>>
    \/ AccReap2 /\ UNCHANGED <<sessVars, codecVars, cliVars, netVars, schedVars>>
    \/ (\E out \in RejectOutcomes : AccReject(out))
          /\ UNCHANGED <<sessVars, codecVars, cliVars, netVars, schedVars>>
    \/ AccFork /\ UNCHANGED <<sessVars, codecVars, cliVars, netVars, schedVars>>
    \/ AccForkFail /\ UNCHANGED <<sessVars, codecVars, cliVars, netVars, schedVars>>
    \/ ChildCloseListen /\ UNCHANGED <<sessVars, codecVars, cliVars, netVars, schedVars>>
    \/ ChildClose /\ UNCHANGED <<sessVars, codecVars, cliVars, netVars, schedVars>>
    \/ ChildExit /\ UNCHANGED <<sessVars, codecVars, cliVars, netVars, schedVars>>

SpecAcceptor == AcceptorInit /\ [][AcceptorNext]_vars

\* the round trip of one game-control packet
RoundTripInit == CodecInit /\ SessInit /\ AccInit /\ CliInit /\ NetInit /\ SchedInit

RoundTripNext ==
    \/ CodecEncode /\ UNCHANGED <<sessVars, accVars, cliVars, netVars, schedVars>>
    \/ CodecDecode /\ UNCHANGED <<sessVars, accVars, cliVars, netVars, schedVars>>

SpecCodec == RoundTripInit /\ [][RoundTripNext]_vars

\* one client and the handler of its session over one connection
SystemInit == SessInit /\ AccInit /\ CodecIdle /\ CliInit /\ NetInit /\ SchedInit

SystemNext ==
    \/ NetReset
    \/ SysOverloaded
    \/ SysWelcome
    \/ SysStart
    \/ SysStartFail
    \/ SysGuessLen
    \/ SysGuessLenFail
    \/ SysLetter
    \/ SysLetterFail
    \/ SysProcess
    \/ SysSend
    \/ CliTake /\ UNCHANGED <<sessVars, accVars, codecVars, schedVars>>
    \/ CliFirst /\ UNCHANGED <<sessVars, accVars, codecVars, schedVars>>
    \/ (\E t \in PromptLines : CliPromptStart(t))
          /\ UNCHANGED <<sessVars, accVars, codecVars, schedVars>>
    \/ CliPromptStartEof /\ UNCHANGED <<sessVars, accVars, codecVars, schedVars>>
    \/ CliAwaitBoard /\ UNCHANGED <<sessVars, accVars, codecVars, schedVars>>
    \/ (\E t \in GuessLines : CliGuess(t))
          /\ UNCHANGED <<sessVars, accVars, codecVars, schedVars>>
    \/ CliSendLetter /\ UNCHANGED <<sessVars, accVars, codecVars, schedVars>>
    \/ CliGuessEof /\ UNCHANGED <<sessVars, accVars, codecVars, schedVars>>
    \/ CliAwaitReply /\ UNCHANGED <<sessVars, accVars, codecVars, schedVars>>

SpecSystem == SystemInit /\ [][SystemNext]_vars

\* the same, where the handler and the client's reads of the connection
\* and its second send of a guess go on whenever they can; the user may
\* stay silent for ever
SpecSystemFair ==
    SystemInit /\ [][SystemNext]_vars
       /\ WF_vars(SysServer) /\ WF_vars(SysClientRecv) /\ WF_vars(SysClientSend)

\* two sessions at once: two children of the acceptor, each in
\* handle_client against an arbitrary peer
PairInit == SessInit /\ AccInit /\ CodecIdle /\ CliInit /\ NetInit /\ SchedInit

PairNext ==
    \/ PairAccept
    \/ PairFork
    \/ PairParentClose
    \/ PairChildExit
    \/ Switch
    \/ (\E out \in PairOutcomes(cur) : SrvWelcome(out)) /\ InChild
    \/ (\E out \in PairOutcomes(cur) : SrvStart(0, PairWord(cur), out)) /\ InChild
    \/ SrvStartFail /\ InChild
    \/ (\E b \in PairLenBytes(cur) : SrvGuessLen(b)) /\ InChild
    \/ SrvGuessLenFail /\ InChild
    \/ (\E b \in PairDrainBytes : SrvDrain(b)) /\ InChild
    \/ SrvDrainFail /\ InChild
    \/ (\E b \in PairLetterBytes(cur) : PairOffers(b) /\ SrvLetter(b)) /\ InChild
    \/ SrvLetterFail /\ InChild
    \/ (\E out \in PairOutcomes(cur) : SrvProcess(out)) /\ InChild

SpecPair == PairInit /\ [][PairNext]_vars

\* ------------------------------------------------------------------------
\* Properties of the guess loop (SpecSession)
\* ------------------------------------------------------------------------
\* number of placeholders of a masked word
Placeholders(m) == Cardinality({i \in 1..Len(m) : m[i] = PLACEHOLDER})

\* C1: while the session is Playing, a step of the handler never turns a
\* revealed position of MaskedWord back into a placeholder nor changes its
\* character, and the number of placeholders does not increase.
C1_RevealedStays ==
    [][status = "Playing" =>
         /\ Len(masked') = Len(masked)
         /\ \A i \in 1..Len(masked) :
               masked[i] # PLACEHOLDER => masked'[i] = masked[i]
         /\ Placeholders(masked') <= Placeholders(masked)]_vars

\* two letters of "cat" revealed by two guesses, a wrong guess among them
C1_Witness ==
    /\ status = "Playing"
    /\ Len(masked) = 3
    /\ Placeholders(masked) = 1
    /\ masked[1] = 99
    /\ Len(incorrect) >= 1

\* C2: IncorrectSet never holds more than 8 letters, and once it holds 8
\* the session is Lost and the handler has returned, or its process was
\* killed in a send of the final messages: no guess byte is read with 8
\* incorrect letters.
C2_CapMeansLost ==
    /\ Len(incorrect) <= MAX_INCORRECT
    /\ Len(incorrect) = MAX_INCORRECT =>
          (status = "Lost" /\ spc \in {"done", "killed"})

\* a session lost with one placeholder left
C2_Witness ==
    /\ status = "Lost"
    /\ Len(incorrect) = MAX_INCORRECT
    /\ Placeholders(masked) = 1

\* C3: a MaskedWord without placeholders means the session is Won and the
\* handler has returned (or its process was killed in a send of the final
\* messages), so that no guess byte is read any more; Won and Lost exclude each other: a Won session has
\* fewer than 8 incorrect letters and sent no "You Lose.", a Lost session
\* has a placeholder left and sent no "You Win!".
C3_NoPlaceholderMeansWon ==
    /\ (Len(masked) > 0 /\ Placeholders(masked) = 0)
          => (status = "Won" /\ spc \in {"done", "killed"})
    /\ status = "Won" =>
          /\ Len(masked) > 0
          /\ Placeholders(masked) = 0
          /\ Len(incorrect) < MAX_INCORRECT
          /\ \A k \in 1..Len(sent) : sent[k] # send_message_packet(YouLoseMsg)
    /\ status = "Lost" =>
          /\ Placeholders(masked) > 0
          /\ \A k \in 1..Len(sent) : sent[k] # send_message_packet(YouWinMsg)

\* a session won with seven incorrect letters
C3_Witness ==
    /\ status = "Won"
    /\ Len(incorrect) = MAX_INCORRECT - 1

\* the three packets that end a game: "The word was" and the letters of
\* the word each preceded by a space, the verdict, "Game Over!"
C4_Expected ==
    LET n == Len(secret)
        verdict == IF status = "Won" THEN YouWinMsg ELSE YouLoseMsg
    IN  << <<12 + 2 * n>> \o TheWordWas
              \o [i \in 1..(2 * n) |-> IF i % 2 = 1 THEN 32 ELSE secret[i \div 2]],
           <<Len(verdict)>> \o verdict,
           <<10>> \o GameOverMsg >>

\* what a terminal session has sent for its final guess
C4_TerminalSent ==
    /\ spc \in {"done", "killed"}
    /\ Len(sent) <= 3
    /\ \A k \in 1..Len(sent) :
          \/ sent[k] = C4_Expected[k]
          \/ k = Len(sent) /\ sent[k] = << C4_Expected[k][1] >>
    /\ \A k \in 1..Len(sent) : sent[k][1] > 0
    /\ spc = "killed" => sent # C4_Expected
    /\ spc = "done" =>
          (Len(sent) >= 2 /\ SubSeq(sent, 1, 2) = SubSeq(C4_Expected, 1, 2))

\* C4: the step that makes a session terminal sends, while its sends
\* succeed, three message packets: "The word was" and the letters of the
\* word each preceded by a space, then "You Win!" (Won) or "You Lose."
\* (Lost), then "Game Over!". What a terminal session has sent is these
\* three packets, or, when a send to a peer that has gone did not succeed,
\* a beginning of them that ends with a whole packet or with the length
\* byte of the next; none of it is a game-control packet. A handler that
\* has returned has sent at least the first two, a handler killed in a
\* send has not sent all three, and nothing is sent afterwards.
C4_TerminalPackets ==
    /\ [](status \in {"Won", "Lost"} => C4_TerminalSent)
    /\ [][(status \in {"Won", "Lost"}) => (sent' = sent)]_vars

\* "tattattat" lost and the three packets sent
C4_Witness ==
    /\ status = "Lost"
    /\ secret = words[2]
    /\ sent = C4_Expected
    /\ spc = "done"

\* C5: a well-formed guess whose lowercased letter is already in MaskedWord
\* or in IncorrectSet leaves Word, MaskedWord, IncorrectSet and Status as
\* they are and is answered with one game-control packet equal to the last
\* one sent; only a send that fails, or that ends the process with
\* SIGPIPE, ends the session instead, with nothing or only the header of
\* that packet sent.
C5_RepeatedGuess ==
    [][(spc = "process" /\ (letter \in Range(masked) \/ letter \in Range(incorrect))) =>
         /\ secret' = secret
         /\ masked' = masked
         /\ incorrect' = incorrect
         /\ \/ /\ status' = status
               /\ spc' = "guess_len"
               /\ sent' = << lastBoard >>
               /\ lastBoard' = lastBoard
            \/ /\ status' = "Closed"
               /\ spc' \in {"done", "killed"}
               /\ sent' \in {<<>>, << SubSeq(lastBoard, 1, 3) >>}
               /\ lastBoard' = lastBoard]_vars

\* a wrong letter guessed again, about to be processed
C5_Witness ==
    /\ spc = "process"
    /\ Len(incorrect) >= 2
    /\ letter = incorrect[1]

\* C6: a guess packet whose length byte L is not 1 changes nothing of the
\* game and sends nothing; when its payload has been drained, 1 + L bytes
\* have been taken from the stream and the handler reads the next byte as
\* a length byte.
C6_MalformedDrained ==
    [][(spc \in {"guess_len", "drain"} /\ spc' \in {"guess_len", "drain"}) =>
         /\ UNCHANGED <<secret, masked, incorrect, status, lastBoard>>
         /\ sent' = <<>>
         /\ guess_len' # 1
         /\ spc' = "drain" => pktRx' <= guess_len'
         /\ (spc' = "guess_len" /\ ~rxEof') => pktRx' = 1 + guess_len']_vars

\* a packet of declared length 3 drained in the middle of a game
C6_Witness ==
    /\ spc = "guess_len"
    /\ status = "Playing"
    /\ ~rxEof
    /\ guess_len = 3
    /\ pktRx = 4
    /\ Len(incorrect) >= 1

\* ------------------------------------------------------------------------
\* Properties of the acceptor (SpecAcceptor)
\* ------------------------------------------------------------------------
\* C7: an admission decision taken while 3 sessions are running answers
\* the connection with the one packet "server-overloaded" and closes it,
\* forks no handler, leaves active_clients and the children as they are,
\* and the acceptor goes on to its next round.
C7_FourthRejected ==
    [][(apc = "admit" /\ apc' # "admit" /\ running = MAX_CLIENTS) =>
         /\ conn'.answer = << <<17>> \o OverloadedMsg >>
         /\ conn'.closed
         /\ ~conn'.forked
         /\ active_clients' = active_clients
         /\ UNCHANGED <<running, closing, zombies>>
         /\ apc' = "reap1"]_vars

\* C8: never more than MAX_CLIENTS handlers at a time, and active_clients
\* stays within 0..MAX_CLIENTS.
C8_AtMostMaxClients ==
    /\ running + closing <= MAX_CLIENTS
    /\ active_clients \in 0..MAX_CLIENTS

\* three handlers running and counted after every connection of the run
\* has arrived, one of them still waiting in the listen queue
C8_Witness ==
    /\ running = MAX_CLIENTS
    /\ active_clients = MAX_CLIENTS
    /\ offered = MaxConnections
    /\ backlog = 1

\* C9: at every admission decision active_clients equals the number of
\* sessions that have not ended yet.
C9_CounterIsLiveSessions ==
    apc = "admit" => active_clients = running

\* ------------------------------------------------------------------------
\* Properties of the codec (SpecCodec)
\* ------------------------------------------------------------------------
\* C10: every game-control packet send_game_state sends is classified as a
\* game-control packet by recv_and_print_one_packet, which recovers the
\* masked-word bytes and the incorrect-letter bytes and takes exactly
\* 3 + wordLen + numIncorrect bytes from the stream.
C10_RoundTrip ==
    cpc = "decoded" =>
        /\ dec.r = 3
        /\ dec.word_state = SubSeq(cin.masked, 1, cin.word_len)
        /\ dec.incorrect = SubSeq(cin.incorrect, 1, cin.num_incorrect)
        /\ dec.consumed = 3 + cin.word_len + cin.num_incorrect

\* ------------------------------------------------------------------------
\* Further properties of the guess loop (SpecSession)
\* ------------------------------------------------------------------------
\* C12: the handler has chosen a word (left AwaitingStart) only if the
\* start header it read is 0.
C12_StartOnlyOnZero ==
    secret # <<>> => msg_len = 0

\* C19: the entries of IncorrectSet are lowercase letters, pairwise
\* distinct, and none of them occurs in Word.
C19_IncorrectLetters ==
    /\ \A j \in 1..Len(incorrect) :
          /\ incorrect[j] >= 97 /\ incorrect[j] <= 122
          /\ incorrect[j] \notin Range(secret)
    /\ \A j, k \in 1..Len(incorrect) : incorrect[j] = incorrect[k] => j = k

\* C20: MaskedWord is as long as Word; each of its positions holds the
\* placeholder or the letter of Word at that position; positions of Word
\* that hold the same letter are revealed together or not at all.
C20_MaskedMatchesWord ==
    /\ Len(masked) = Len(secret)
    /\ \A i \in 1..Len(masked) :
          masked[i] = PLACEHOLDER \/ masked[i] = secret[i]
    /\ \A i, j \in 1..Len(masked) :
          secret[i] = secret[j] =>
             (masked[i] = PLACEHOLDER <=> masked[j] = PLACEHOLDER)

\* the three a's of "tattattat" revealed, the t's still hidden
C20_Witness ==
    /\ status = "Playing"
    /\ Len(secret) = 9
    /\ masked[2] = 97 /\ masked[5] = 97 /\ masked[8] = 97
    /\ masked[1] = PLACEHOLDER

\* ------------------------------------------------------------------------
\* Properties of one connection (SpecSystem, SpecSystemFair)
\* ------------------------------------------------------------------------
\* the client is inside a recv of the connection
ClientInRecv == clpc \in {"first", "await_board", "await_reply"}

\* main of the client waits for the user
ClientAtPrompt == clpc \in {"prompt_start", "guessing"}

\* C15: once one peer has closed the connection, or the connection has
\* failed, the other peer does not stay in a socket operation: the handler
\* returns; a client inside a recv or between the two sends of a guess
\* ends, or reads what had arrived and comes to a prompt; and on a reset
\* connection with nothing left to read, each socket operation of the
\* client fails and ends it.
C15_BothSidesEnd ==
    /\ (ClientGone \/ reset) ~> ServerGone
    /\ ((ServerGone \/ reset) /\ ~ClientAtPrompt) ~> (ClientGone \/ ClientAtPrompt)
    /\ ((ServerGone \/ reset) /\ s2c = <<>> /\ ~ClientAtPrompt) ~> ClientGone
    /\ [][(reset /\ s2c = <<>> /\ clpc' # clpc) => ClientGone']_vars

\* the handler has returned after the client closed at the guess prompt
C15_Witness ==
    /\ ClientGone /\ exitAt = "guessing"
    /\ ServerGone /\ status = "Closed" /\ rxEof
    /\ ~reset

\* the word of the session is longer than the client accepts
LongWord == Len(secret) > CLIENT_MAX_WORD_LEN

\* C11: when the handler has chosen a word of 9 to 16 letters, the client
\* never reaches the guess prompt and no guess is sent or read; the client
\* returns from the read of the initial board with an error, having taken
\* the three bytes of its header only: the payload is left unread, or is
\* not sent yet; and the client and then the handler end, the session
\* Closed.
C11_LongWordRejected ==
    /\ [](LongWord =>
            /\ clpc \in {"await_board", "done"}
            /\ spc \in {"guess_len", "done"}
            /\ c2s = <<>>
            /\ incorrect = <<>>
            /\ (ClientGone =>
                   /\ exitAt = "await_board" /\ rc = 1 /\ r = -1
                   /\ (~reset => s2c \in {<<>>, masked})))
    /\ [][(LongWord /\ ~reset /\ clpc = "await_board" /\ clpc' = "done") =>
            (/\ SubSeq(s2c, 1, 3) = <<0, Len(secret), 0>>
             /\ s2c' = SubSeq(s2c, 4, Len(s2c)))]_vars
    /\ LongWord ~> (ClientGone /\ ServerGone /\ status = "Closed")

\* the board of "tattattat" rejected, its nine placeholders unread, and
\* the handler ended by the closed connection
C11_Witness ==
    /\ Len(secret) = 9 /\ ~reset
    /\ ClientGone /\ exitAt = "await_board" /\ rc = 1
    /\ Len(s2c) = 9
    /\ ServerGone /\ status = "Closed" /\ rxEof

\* the first character of the answer t is y or Y
AnswerYes(t) == t # <<>> /\ (t[1] = 121 \/ t[1] = 89)

\* main returned at the start prompt without sending
Declined == ClientGone /\ exitAt = "prompt_start"

\* C13: the client goes on from the start prompt only on an answer that
\* begins with y or Y; when it returns at the prompt it has sent no byte,
\* and the handler has read none, chosen no word and sent nothing after
\* the welcome message; the handler then ends, the session Closed.
C13_DeclinedStart ==
    /\ [](clpc = "await_board" => AnswerYes(typed))
    /\ [](Declined =>
            /\ c2s = <<>> /\ s2c = <<>>
            /\ spc \in {"await_start", "done"}
            /\ status \in {"AwaitingStart", "Closed"}
            /\ secret = <<>> /\ lastBoard = <<>>
            /\ (ServerGone => sent = <<>> /\ rxEof))
    /\ Declined ~> (ServerGone /\ status = "Closed")

\* the answer n: the client has closed and the handler has ended
C13_Witness ==
    /\ Declined /\ typed = <<110>> /\ rc = 0 /\ ~reset
    /\ ServerGone /\ status = "Closed" /\ secret = <<>>

\* bytes of guess packets the client has sent and the handler has not
\* answered yet: in flight, or read and not processed
GuessBytesUnanswered ==
    Len(c2s) + (IF spc = "letter" THEN 1 ELSE IF spc = "process" THEN 2 ELSE 0)

\* the handler takes a byte from the connection
ServerReads == Len(c2s') < Len(c2s) /\ reset' = reset

\* C14: guesses go in lockstep.  At most one guess packet (two bytes) is
\* unanswered.  The client starts to send a guess only when the last
\* packet it read is a game-control packet, nothing is in flight and the
\* handler waits for a length byte with no send left to make; it sends
\* the letter next, and then reads.  The handler takes a byte only when
\* it has made every send of its last answer and the client has read all
\* of it and, unless the connection was reset, is sending the guess or
\* waiting for its answer; the step that applies a guess reads nothing and starts to send
\* the answer (one game-control packet, or the three terminal messages),
\* and while sends of an answer are left the client sends nothing.
C14_Lockstep ==
    /\ [](status = "Playing" => GuessBytesUnanswered <= 2)
    /\ [][(clpc = "guessing" /\ clpc' = "send_letter") =>
            (/\ r = 3 /\ c2s = <<>> /\ s2c = <<>> /\ txq = <<>>
             /\ spc = "guess_len" /\ c2s' = <<1>>)]_vars
    /\ [][(clpc = "send_letter" /\ clpc' # "send_letter" /\ ~reset) =>
            (/\ clpc' = "await_reply" /\ c2s' = Append(c2s, guess)
             /\ s2c = <<>> /\ txq = <<>>
             /\ \/ spc = "guess_len" /\ c2s = <<1>>
                \/ spc = "letter" /\ c2s = <<>>)]_vars
    /\ [][(ServerReads /\ status = "Playing") =>
            (/\ txq = <<>> /\ s2c = <<>> /\ c2s' = Tail(c2s)
             /\ (reset \/ clpc \in {"send_letter", "await_reply"}))]_vars
    /\ [][(spc = "process" /\ spc' # "process" /\ ~reset /\ ~ClientGone) =>
            (/\ c2s = <<>> /\ c2s' = c2s
             /\ s2c' = s2c \o Head(AllChunks(sent'))
             /\ txq' = Tail(AllChunks(sent'))
             /\ \/ spc' = "guess_len" /\ sent' = << lastBoard' >>
                \/ spc' = "done" /\ Len(sent') = 3)]_vars
    /\ []((txq # <<>> /\ ~reset) =>
            (c2s = <<>> /\ clpc \in {"first", "await_board", "await_reply", "done"}))

\* a guess packet sent and not read yet, after a wrong guess was answered
C14_Witness ==
    /\ status = "Playing" /\ ~reset
    /\ clpc = "await_reply" /\ Len(c2s) = 2 /\ heard = <<>>
    /\ spc = "guess_len" /\ txq = <<>>
    /\ Len(incorrect) = 1

\* the messages that end a game, as the client prints them
TerminalMessages ==
    << word_msg(secret),
       IF status = "Won" THEN YouWinMsg ELSE YouLoseMsg,
       GameOverMsg >>

\* C16: the read loop after a guess ends only on a game-control packet
\* (back to the guess prompt), on "Game Over!" or on a failed read (main
\* returns); once main has returned the client sends nothing more; and
\* after the handler has won or lost the game the client returns, having
\* read the three terminal messages in order unless the connection was
\* reset.
C16_ReadsToGameOver ==
    /\ [][(clpc = "await_reply" /\ clpc' # "await_reply") =>
            \/ r' = 3 /\ clpc' = "guessing"
            \/ (r' = 2 \/ r' < 0) /\ clpc' = "done" /\ game_over']_vars
    /\ [](r = 2 => ClientGone)
    /\ [][ClientGone => (ClientGone' /\ Len(c2s') <= Len(c2s))]_vars
    /\ []((status \in {"Won", "Lost"} /\ ClientGone /\ ~reset) =>
            (heard = TerminalMessages /\ r = 2 /\ exitAt = "await_reply"))
    /\ (status \in {"Won", "Lost"}) ~> ClientGone

\* the game lost and the three messages read
C16_Witness ==
    /\ status = "Lost" /\ ClientGone /\ ~reset
    /\ heard = << word_msg(secret), YouLoseMsg, GameOverMsg >>
    /\ game_over

\* the client reads typed input: a line just typed, or what is left of it
ReadsInput == typed' # typed \/ stdin' # stdin

\* C17: at the guess prompt, a step that reads (a part of) a typed line
\* that is neither empty nor exactly one letter sends no byte, changes
\* nothing in the handler and leaves the client at the guess prompt; a
\* step that reads an empty line sends no byte and ends the client.
C17_InvalidLineIgnored ==
    /\ [][(clpc = "guessing" /\ ReadsInput
             /\ typed' # <<>> /\ ~one_letter(typed')) =>
            (c2s' = c2s /\ clpc' = "guessing" /\ UNCHANGED sessVars)]_vars
    /\ [][(clpc = "guessing" /\ ReadsInput /\ typed' = <<>>) =>
            (c2s' = c2s /\ clpc' = "done" /\ UNCHANGED sessVars)]_vars

\* ------------------------------------------------------------------------
\* Properties of two sessions (SpecPair)
\* ------------------------------------------------------------------------
\* Word, MaskedWord, IncorrectSet, Status and the packets just sent of the
\* session of child p, and what is sent on its connection
SessionOf(p) ==
    IF p = cur
    THEN <<secret, masked, incorrect, status, sent, chan[p]>>
    ELSE <<parked.secret, parked.masked, parked.incorrect, parked.status,
           parked.sent, chan[p]>>

\* a step of the handler of child p, or its exit
StepOf(p) == cur = p /\ cur' = p /\ ppc' = ppc

\* C18: sessions are isolated. Only a step of a session's own handler (a
\* guess, a malformed packet, a failed recv or send, a return, the end of
\* the process) changes its Word, MaskedWord, IncorrectSet, Status or what
\* is sent on its connection: no step of the other child, no step of main
\* and no resumption of a child does. A session's connection is owned by
\* its handler: a child holds no descriptor of the other session's
\* connection, and main holds none when it is back at accept, so no other
\* process can send on the connection or keep it open.
C18_SessionsIsolated ==
    /\ [][\A p \in Children : ~StepOf(p) => (SessionOf(p)' = SessionOf(p))]_vars
    /\ [](\A p \in Children : \A e \in fdt[p] : e[2] = p)
    /\ [](ppc = "accept" => fdt[Acceptor] = {})

\* the first session was lost, its child killed by SIGPIPE in the final
\* sends and gone, while the second, whose client_fd has the same number,
\* plays "tattattat" with a letter revealed and a wrong guess
C18_Witness ==
    /\ cur = 2 /\ life = [p \in Children |-> IF p = 1 THEN "exited" ELSE "running"]
    /\ parked.status = "Lost" /\ parked.spc = "killed"
    /\ status = "Playing" /\ Len(secret) = 9
    /\ 116 \in Range(masked) /\ incorrect # <<>>
    /\ client_fd[1] = client_fd[2]
    /\ ppc = "accept"

\* ------------------------------------------------------------------------
\* Progress of a session
\* ------------------------------------------------------------------------
\* the handler is inside a recv of the connection, every send of its
\* last answer made
ServerInRecv ==
    txq = <<>> /\ spc \in {"await_start", "guess_len", "drain", "letter"}

\* C21: with a word of at most 8 letters and a connection that was not
\* reset, the client and the handler are never both inside a recv with
\* no byte in flight in either direction.
C21_NoDeadlock ==
    (Len(secret) <= CLIENT_MAX_WORD_LEN /\ ~reset) =>
       ~(/\ ClientInRecv
         /\ ServerInRecv
         /\ c2s = <<>>
         /\ s2c = <<>>)

\* the client waits for the answer to a guess of "cat" with nothing in
\* flight: the handler has read the guess and is about to answer it
C21_Witness ==
    /\ Len(secret) = 3 /\ ~reset /\ status = "Playing"
    /\ clpc = "await_reply" /\ c2s = <<>> /\ s2c = <<>>
    /\ spc = "process"

\* D: the number of distinct letters of the word
DistinctLetters == Cardinality(Range(secret))

\* the guesses that counted so far: the distinct letters revealed and the
\* entries of the incorrect letters
GuessesCounted ==
    Cardinality(Range(masked) \ {PLACEHOLDER}) + Len(incorrect)

\* the handler is about to apply a lowercase letter not guessed before
FreshLetter ==
    /\ spc = "process"
    /\ letter >= 97 /\ letter <= 122
    /\ letter \notin Range(masked) /\ letter \notin Range(incorrect)

\* C22: the step that applies a lowercase letter not guessed before either
\* reveals at least one placeholder and leaves the incorrect letters as
\* they are, or appends that letter alone to the incorrect letters and
\* leaves the masked word as it is; it raises the count of guesses by one;
\* and when the handler ends in that step the game is Won or Lost, or
\* Closed by a failed send.  The count never exceeds D + 8, and a game
\* still Playing has counted fewer than D + 8 guesses: D + 8 new letters
\* are enough to end every game.
C22_BoundedGame ==
    /\ [][(FreshLetter /\ spc' # "process") =>
            (/\ \/ /\ Placeholders(masked') < Placeholders(masked)
                   /\ incorrect' = incorrect
                \/ /\ incorrect' = Append(incorrect, letter)
                   /\ masked' = masked
             /\ GuessesCounted' = GuessesCounted + 1
             /\ spc' \in {"done", "killed"} =>
                   (status' \in {"Won", "Lost"}
                      \/ (/\ status' = "Closed"
                          /\ sent' \in {<<>>, << <<0, Len(masked'), Len(incorrect')>> >>})))]_vars
    /\ [](secret # <<>> => GuessesCounted <= DistinctLetters + MAX_INCORRECT)
    /\ [](status = "Playing" =>
            GuessesCounted < DistinctLetters + MAX_INCORRECT)

\* "tattattat" lost after nine new letters: one of its two letters
\* revealed and eight wrong letters
C22_Witness ==
    /\ status = "Lost" /\ Len(secret) = 9
    /\ \A j \in 1..Len(incorrect) : incorrect[j] >= 97 /\ incorrect[j] <= 122
    /\ GuessesCounted = DistinctLetters + MAX_INCORRECT - 1

====
